---- MODULE Spec2Model ----
(***************************************************************************)
(* A model of the Either library of src/index.ts.                          *)
(*                                                                         *)
(* The library is a set of pure functions.  The state machine below is a   *)
(* client that calls one library function per step: op is the function     *)
(* called, args the arguments it was given and out what the call           *)
(* produced: the value returned or the error thrown, together with the     *)
(* trace of the invocations of the caller-supplied functions (handlers,    *)
(* selectors, thunks) the call made, in order.                             *)
(*                                                                         *)
(* JavaScript values are tagged records, so that values of different       *)
(* JavaScript types are different and comparable: Num(1) # Str("1").       *)
(* A curried library function  f(a)(b)  is the operator  f(a, b).          *)
(***************************************************************************)
EXTENDS Integers, Sequences, FiniteSets

VARIABLES op, args, out

vars == <<op, args, out>>

(***************************************************************************)
(* Bounds of the client's inputs.                                          *)
(***************************************************************************)
\* numbers 0..MaxNum are payloads
MaxNum == 1
\* arrays handed to the collection lifters have at most MaxLen elements
MaxLen == 3
\* records handed to the record lifters have at most MaxFields fields
MaxFields == 3

(***************************************************************************)
(* JavaScript values.                                                      *)
(***************************************************************************)
Num(n) == [num |-> n]
Str(s) == [str |-> s]
Arr(a) == [arr |-> a]
Fn(f) == [fn |-> f]
\* an object literal: its own enumerable properties <<key, value>>, in the
\* order they were written (inserted)
Obj(props) == [props |-> props]

Nums == {Num(n) : n \in 0..MaxNum}
Strs == {Str("x"), Str("y")}
\* the instance of the type parameters E, T, R used by most calls
Payload == Nums \cup Strs

(***************************************************************************)
(* What a call produces.                                                   *)
(***************************************************************************)
Return(v) == [kind |-> "return", value |-> v, trace |-> <<>>]
\* throw new Error(message)
ThrowError(message) ==
    [kind |-> "throw", error |-> [name |-> "Error", message |-> message], trace |-> <<>>]
\* the invocation f(x) of a caller-supplied function, here a total one
Call(name, f, x) ==
    [kind |-> "return", value |-> f[x], trace |-> <<[fn |-> name, args |-> <<x>>]>>]
\* the invocation b() of a caller-supplied thunk
CallThunk(name, b) ==
    [kind |-> "return", value |-> b[<<>>], trace |-> <<[fn |-> name, args |-> <<>>]>>]
\* a caller-supplied function passed as it is where the library expects a handler
Traced(name, f) == [x \in DOMAIN f |-> Call(name, f, x)]

(***************************************************************************)
(* Either core.                                                            *)
(***************************************************************************)
getPropertyDescriptor(type, value) == [type |-> type, value |-> value]

Right(value) == getPropertyDescriptor("right", value)

Left(value) == getPropertyDescriptor("left", value)

of(value) == Right(value)

isRight(value) == value.type = "right"

isLeft(value) == value.type = "left"

\* caseOf with the two handlers taken for each other
caseOf_swapped(actions, input) ==
    IF isRight(input)
        THEN actions.left[input.value]
        ELSE actions.right[input.value]

\* actions.right and actions.left are functions from the payload to what the
\* handler's invocation produces
caseOf(actions, input) ==
    IF isRight(input)
        THEN actions.right[input.value]
        ELSE actions.left[input.value]

\* the constructors passed as handlers (right: Right, left: Left)
RightHandler == [value \in Payload |-> Return(Right(value))]
LeftHandler == [value \in Payload |-> Return(Left(value))]

Eithers == {Right(v) : v \in Payload} \cup {Left(v) : v \in Payload}

(***************************************************************************)
(* Caller-supplied functions.                                              *)
(***************************************************************************)
Identity == [v \in Payload |-> v]
ConstZero == [v \in Payload |-> Num(0)]
Swap ==
    [v \in Payload |->
        IF v \in Nums THEN Num((v.num + 1) % (MaxNum + 1))
        ELSE IF v = Str("x") THEN Str("y") ELSE Str("x")]
Wrap == [v \in Payload |-> Arr(<<v>>)]
\* T -> T
Selectors == {Identity, ConstZero, Swap}
\* T -> R
Handlers == Selectors \cup {Wrap}

\* the instance of T -> R carried as a payload by flap and apply
FnPayload == {Fn(f) : f \in Handlers}

(***************************************************************************)
(* String conversion: what a template literal `${v}` does to a value.      *)
(***************************************************************************)
Digits == <<"0", "1", "2", "3", "4", "5", "6", "7", "8", "9">>

RECURSIVE NumberToString(_)
NumberToString(n) ==
    IF n < 10 THEN Digits[n + 1]
    ELSE NumberToString(n \div 10) \o Digits[(n % 10) + 1]

RECURSIVE ToString(_)
RECURSIVE Join(_)
\* Array.prototype.join(","), which Array.prototype.toString uses
Join(a) ==
    IF Len(a) = 0 THEN ""
    ELSE IF Len(a) = 1 THEN ToString(a[1])
    ELSE ToString(a[1]) \o "," \o Join(Tail(a))

\* an Either inherits toString from the prototype object Either
ToString(v) ==
    IF "num" \in DOMAIN v THEN NumberToString(v.num)
    ELSE IF "str" \in DOMAIN v THEN v.str
    ELSE IF "arr" \in DOMAIN v THEN Join(v.arr)
    ELSE "(" \o v.type \o " " \o ToString(v.value) \o ")"

toString(this) == "(" \o this.type \o " " \o ToString(this.value) \o ")"

(***************************************************************************)
(* Extraction and conversion combinators, collection lifters.              *)
(***************************************************************************)
mapLeft(selector, input) ==
    caseOf([right |-> RightHandler,
            left |-> [leftValue \in DOMAIN selector |->
                        [Call("selector", selector, leftValue) EXCEPT !.value = Left(@)]]],
           input)

toArray(input) ==
    caseOf([right |-> [x \in Payload |-> Return(Arr(<<x>>))],
            left |-> [x \in Payload |-> Return(Arr(<<>>))]],
           input)

TakeSingleError_Empty == 0
TakeSingleError_MoreThanOne == 1

\* singleFromArray without the test for more than one element
singleFromArray_anyLength(input) ==
    IF Len(input.arr) = 0 THEN
        Return(Left(Num(TakeSingleError_Empty)))
    ELSE
        Return(Right(input.arr[1]))

singleFromArray(input) ==
    IF Len(input.arr) = 0 THEN
        Return(Left(Num(TakeSingleError_Empty)))
    ELSE IF Len(input.arr) > 1 THEN
        Return(Left(Num(TakeSingleError_MoreThanOne)))
    ELSE
        Return(Right(input.arr[1]))

TakeFirstError_Empty == 0

firstFromArray(input) ==
    IF Len(input.arr) > 0
        THEN Return(Right(input.arr[1]))
        ELSE Return(Left(Num(TakeFirstError_Empty)))

defaultTo(defaultValue, input) ==
    caseOf([right |-> [x \in Payload |-> Return(x)],
            left |-> [x \in Payload |-> Return(defaultValue)]],
           input)

\* the payloads handed to the two partial extractions
Renderable ==
    Payload \cup {Num(10), Num(42), Arr(<<Num(1), Str("y")>>), Left(Str("x")), Right(Num(7))}

\* getRightOrFail handing back the Left's payload instead of throwing
getRightOrFail_lenient(input) ==
    caseOf([right |-> [x \in Renderable |-> Return(x)],
            left |-> [e \in Renderable |-> Return(e)]],
           input)

getRightOrFail(input) ==
    caseOf([right |-> [x \in Renderable |-> Return(x)],
            left |-> [e \in Renderable |->
                        ThrowError("Tried to get right out of a left: " \o ToString(e))]],
           input)

getLeftOrFail(input) ==
    caseOf([right |-> [t \in Renderable |->
                        ThrowError("Tried to get left out of a right: " \o ToString(t))],
            left |-> [e \in Renderable |-> Return(e)]],
           input)

(***************************************************************************)
(* Functor, bifunctor, monad.                                              *)
(***************************************************************************)
\* map applying the selector to the payload of a Left too
map_bothSides(selector, input) ==
    caseOf([right |-> [value \in DOMAIN selector |->
                        [Call("selector", selector, value) EXCEPT !.value = Right(@)]],
            left |-> [value \in DOMAIN selector |->
                        [Call("selector", selector, value) EXCEPT !.value = Left(@)]]],
           input)

map(selector, input) ==
    caseOf([right |-> [value \in DOMAIN selector |->
                        [Call("selector", selector, value) EXCEPT !.value = Right(@)]],
            left |-> LeftHandler],
           input)

\* func is an Either whose Right payload is a function; the selector handed to
\* map is the library's own (f) => f(value)
flap(func, value) ==
    caseOf([right |-> [f \in FnPayload |->
                        [Call("func.value", f.fn, value) EXCEPT !.value = Right(@)]],
            left |-> LeftHandler],
           func)

bimap(leftSelector, rightSelector, input) ==
    caseOf([right |-> [value \in DOMAIN rightSelector |->
                        [Call("rightSelector", rightSelector, value) EXCEPT !.value = Right(@)]],
            left |-> [value \in DOMAIN leftSelector |->
                        [Call("leftSelector", leftSelector, value) EXCEPT !.value = Left(@)]]],
           input)

\* chain wrapping the selector's result in a Right, as map does
chain_wrapping(selector, input) ==
    caseOf([right |-> [value \in DOMAIN selector |->
                        [Call("selector", selector, value) EXCEPT !.value = Right(@)]],
            left |-> LeftHandler],
           input)

chain(selector, input) ==
    caseOf([right |-> Traced("selector", selector),
            left |-> LeftHandler],
           input)

\* T -> Either<E, R>
OfSelector == [v \in Payload |-> of(v)]
FailSelector == [v \in Payload |-> Left(v)]
HalfSelector == [v \in Payload |-> IF v \in Nums THEN Right(Swap[v]) ELSE Left(Num(0))]
ChainSelectors == {OfSelector, FailSelector, HalfSelector}

(***************************************************************************)
(* Alternative, extend, applicative.                                       *)
(***************************************************************************)
alt(a, b) ==
    IF isRight(a)
        THEN Return(a)
        ELSE Return(b)

\* altLazy evaluating the fallback before it looks at a
altLazy_eager(a, b) ==
    IF isRight(a)
        THEN [CallThunk("b", b) EXCEPT !.value = a]
        ELSE CallThunk("b", b)

altLazy(a, b) ==
    IF isRight(a)
        THEN Return(a)
        ELSE CallThunk("b", b)

\* () -> Either<E, T>
Thunks == [{<<>>} -> Eithers]

extend(selector, input) ==
    IF isRight(input)
        THEN [Call("selector", selector, input) EXCEPT !.value = Right(@)]
        ELSE Return(Left(input.value))

\* Either<E, T> -> R
Unwrap == [e \in Eithers |-> e.value]
Render == [e \in Eithers |-> Str(toString(e))]
ExtendSelectors == {Unwrap, Render}

apply(func, value) ==
    IF isRight(func)
        THEN map(func.value.fn, value)
        ELSE Return(Left(func.value))

\* lift2 looking at its second operand first
lift2_secondFirst(func, t1, t2) ==
    IF isLeft(t2) THEN
        Return(t2)
    ELSE IF isLeft(t1) THEN
        Return(t1)
    ELSE
        LET f1 == Call("func", func, t1.value)
            f2 == Call("func(t1)", f1.value, t2.value)
        IN  [kind |-> "return", value |-> Right(f2.value), trace |-> f1.trace \o f2.trace]

lift2(func, t1, t2) ==
    IF isLeft(t1) THEN
        Return(t1)
    ELSE IF isLeft(t2) THEN
        Return(t2)
    ELSE
        LET f1 == Call("func", func, t1.value)
            f2 == Call("func(t1)", f1.value, t2.value)
        IN  [kind |-> "return", value |-> Right(f2.value), trace |-> f1.trace \o f2.trace]

lift3(func, t1, t2, t3) ==
    IF isLeft(t1) THEN
        Return(t1)
    ELSE IF isLeft(t2) THEN
        Return(t2)
    ELSE IF isLeft(t3) THEN
        Return(t3)
    ELSE
        LET f1 == Call("func", func, t1.value)
            f2 == Call("func(t1)", f1.value, t2.value)
            f3 == Call("func(t1)(t2)", f2.value, t3.value)
        IN  [kind |-> "return", value |-> Right(f3.value),
             trace |-> f1.trace \o f2.trace \o f3.trace]

\* T1 -> T2 -> R and T1 -> T2 -> T3 -> R
Pair == [a \in Payload |-> [b \in Payload |-> Arr(<<a, b>>)]]
First2 == [a \in Payload |-> [b \in Payload |-> a]]
Second2 == [a \in Payload |-> [b \in Payload |-> b]]
Funcs2 == {Pair, First2, Second2}
Triple == [a \in Payload |-> [b \in Payload |-> [c \in Payload |-> Arr(<<a, b, c>>)]]]
Third3 == [a \in Payload |-> [b \in Payload |-> [c \in Payload |-> c]]]
Funcs3 == {Triple, Third3}

applyFirst(first, second) ==
    IF isLeft(first) THEN
        Return(first)
    ELSE IF isLeft(second) THEN
        Return(second)
    ELSE
        Return(first)

\* applySecond ending as applyFirst does
applySecond_first(first, second) ==
    IF isLeft(first) THEN
        Return(first)
    ELSE IF isLeft(second) THEN
        Return(second)
    ELSE
        Return(first)

applySecond(first, second) ==
    IF isLeft(first) THEN
        Return(first)
    ELSE IF isLeft(second) THEN
        Return(second)
    ELSE
        Return(second)

(***************************************************************************)
(* Objects: property keys, their enumeration order, reads and writes.      *)
(***************************************************************************)
IsDigit(c) == \E i \in 1..10 : Digits[i] = c

DigitValue(c) == (CHOOSE i \in 1..10 : Digits[i] = c) - 1

RECURSIVE StringToNumber(_)
StringToNumber(s) ==
    IF Len(s) = 1 THEN DigitValue(s)
    ELSE StringToNumber(SubSeq(s, 1, Len(s) - 1)) * 10 + DigitValue(SubSeq(s, Len(s), Len(s)))

\* a key is an integer index when it is the canonical rendering of a
\* non-negative integer: "2" and "10" are, "01" and "a" are not
IsArrayIndex(key) ==
    /\ Len(key) > 0
    /\ \A i \in 1..Len(key) : IsDigit(SubSeq(key, i, i))
    /\ NumberToString(StringToNumber(key)) = key

OwnKeys(o) == [i \in 1..Len(o.props) |-> o.props[i][1]]

RECURSIVE Ascending(_)
Ascending(keys) ==
    IF keys = {} THEN <<>>
    ELSE LET least == CHOOSE k \in keys :
                        \A j \in keys : StringToNumber(k) <= StringToNumber(j)
         IN  <<least>> \o Ascending(keys \ {least})

IsIndexKey(k) == IsArrayIndex(k)
IsNameKey(k) == ~IsArrayIndex(k)

\* Object.keys: the integer-index keys in ascending numeric order, then the
\* other string keys in the order they were inserted
ObjectKeys(o) ==
    Ascending({OwnKeys(o)[i] : i \in {j \in 1..Len(o.props) : IsArrayIndex(OwnKeys(o)[j])}})
        \o SelectSeq(OwnKeys(o), IsNameKey)

\* o[key] for an own property
GetProp(o, key) == o.props[CHOOSE i \in 1..Len(o.props) : o.props[i][1] = key][2]

HasProp(o, key) == \E i \in 1..Len(o.props) : o.props[i][1] = key

\* o[key] = value: creates the own property, or overwrites it
SetProp(o, key, value) ==
    IF HasProp(o, key) THEN
        Obj([i \in 1..Len(o.props) |->
                IF o.props[i][1] = key THEN <<key, value>> ELSE o.props[i]])
    ELSE Obj(Append(o.props, <<key, value>>))

(***************************************************************************)
(* Record lifters.                                                         *)
(***************************************************************************)
\* the for loop of liftProps over the keys left, result being the object
\* built so far
RECURSIVE liftPropsLoop(_, _, _)
liftPropsLoop(input, keys, result) ==
    IF keys = <<>> THEN Return(Right(result))
    ELSE LET key == Head(keys)
             value == GetProp(input, key)
         IN  IF isLeft(value)
                 THEN Return(value)
                 ELSE liftPropsLoop(input, Tail(keys), SetProp(result, key, value.value))

liftProps(input) == liftPropsLoop(input, ObjectKeys(input), Obj(<<>>))

\* the for loop of liftPropsCollect, errors being the array built so far
RECURSIVE liftPropsCollectLoop(_, _, _, _)
liftPropsCollectLoop(input, keys, result, errors) ==
    IF keys = <<>> THEN
        IF Len(errors) = 0
            THEN Return(Right(result))
            ELSE Return(Left(Arr(errors)))
    ELSE LET key == Head(keys)
             value == GetProp(input, key)
         IN  IF isLeft(value) THEN
                 liftPropsCollectLoop(input, Tail(keys), result, Append(errors, value.value))
             ELSE IF Len(errors) = 0 THEN
                 liftPropsCollectLoop(input, Tail(keys), SetProp(result, key, value.value), errors)
             ELSE
                 liftPropsCollectLoop(input, Tail(keys), result, errors)

liftPropsCollect(input) == liftPropsCollectLoop(input, ObjectKeys(input), Obj(<<>>), <<>>)

\* the records handed to the record lifters: up to MaxFields fields with
\* distinct keys, written in any order; the keys are ordinary names ("a", and
\* "01", which is no integer index) and integer indices ("2", "10")
Labels == {"a", "b", "c", "2", "10", "01"}
FieldValues == {Left(Str("x")), Left(Str("y")), Right(Num(0)), Right(Num(1))}
Records ==
    {Obj(props) : props \in
        UNION {{p \in [1..n -> Labels \X FieldValues] :
                    \A i, j \in 1..n : p[i][1] = p[j][1] => i = j} : n \in 0..MaxFields}}

\* the arrays handed to the collection lifters
Arrays == {Arr(a) : a \in UNION {[1..n -> Payload] : n \in 0..MaxLen}}

(***************************************************************************)
(* The client: it calls one function, looks at what the call produced and  *)
(* discards it before the next call.                                       *)
(***************************************************************************)
Idle == op = "none"

Init ==
    /\ op = "none"
    /\ args = <<>>
    /\ out = Return(Num(0))

Discard ==
    /\ ~Idle
    /\ op' = "none"
    /\ args' = <<>>
    /\ out' = Return(Num(0))

CallRight ==
    /\ Idle
    /\ \E value \in Payload :
        /\ op' = "Right"
        /\ args' = [value |-> value]
        /\ out' = Return(Right(value))

CallLeft ==
    /\ Idle
    /\ \E value \in Payload :
        /\ op' = "Left"
        /\ args' = [value |-> value]
        /\ out' = Return(Left(value))

CallIsRight ==
    /\ Idle
    /\ \E ctor \in {"Right", "Left"}, value \in Payload :
        /\ op' = "isRight"
        /\ args' = [ctor |-> ctor, value |-> value]
        /\ out' = Return(isRight(IF ctor = "Right" THEN Right(value) ELSE Left(value)))

CallIsLeft ==
    /\ Idle
    /\ \E ctor \in {"Right", "Left"}, value \in Payload :
        /\ op' = "isLeft"
        /\ args' = [ctor |-> ctor, value |-> value]
        /\ out' = Return(isLeft(IF ctor = "Right" THEN Right(value) ELSE Left(value)))

CallCaseOf ==
    /\ Idle
    /\ \E right \in Handlers, left \in Handlers, ctor \in {"Right", "Left"}, value \in Payload :
        /\ op' = "caseOf"
        /\ args' = [right |-> right, left |-> left, ctor |-> ctor, value |-> value]
        /\ out' = caseOf([right |-> Traced("right", right), left |-> Traced("left", left)],
                         IF ctor = "Right" THEN Right(value) ELSE Left(value))

CallToString ==
    /\ Idle
    /\ \E v \in Renderable, type \in {"right", "left"} :
        /\ op' = "toString"
        /\ args' = [this |-> getPropertyDescriptor(type, v)]
        /\ out' = Return(Str(toString(getPropertyDescriptor(type, v))))

CallMapLeft ==
    /\ Idle
    /\ \E selector \in Handlers, input \in Eithers :
        /\ op' = "mapLeft"
        /\ args' = [selector |-> selector, input |-> input]
        /\ out' = mapLeft(selector, input)

CallToArray ==
    /\ Idle
    /\ \E input \in Eithers :
        /\ op' = "toArray"
        /\ args' = [input |-> input]
        /\ out' = toArray(input)

CallSingleFromArray ==
    /\ Idle
    /\ \E input \in Arrays :
        /\ op' = "singleFromArray"
        /\ args' = [input |-> input]
        /\ out' = singleFromArray(input)

CallFirstFromArray ==
    /\ Idle
    /\ \E input \in Arrays :
        /\ op' = "firstFromArray"
        /\ args' = [input |-> input]
        /\ out' = firstFromArray(input)

CallDefaultTo ==
    /\ Idle
    /\ \E defaultValue \in Payload, input \in Eithers :
        /\ op' = "defaultTo"
        /\ args' = [defaultValue |-> defaultValue, input |-> input]
        /\ out' = defaultTo(defaultValue, input)

CallGetRightOrFail ==
    /\ Idle
    /\ \E v \in Renderable, type \in {"right", "left"} :
        /\ op' = "getRightOrFail"
        /\ args' = [input |-> getPropertyDescriptor(type, v)]
        /\ out' = getRightOrFail(getPropertyDescriptor(type, v))

CallGetLeftOrFail ==
    /\ Idle
    /\ \E v \in Renderable, type \in {"right", "left"} :
        /\ op' = "getLeftOrFail"
        /\ args' = [input |-> getPropertyDescriptor(type, v)]
        /\ out' = getLeftOrFail(getPropertyDescriptor(type, v))

CallMap ==
    /\ Idle
    /\ \E selector \in Handlers, input \in Eithers :
        /\ op' = "map"
        /\ args' = [selector |-> selector, input |-> input]
        /\ out' = map(selector, input)

\* map(g)(map(f)(e)): the second call is made on the value the first returned
CallMapMap ==
    /\ Idle
    /\ \E f \in Selectors, g \in Handlers, input \in Eithers :
        /\ op' = "map.map"
        /\ args' = [f |-> f, g |-> g, input |-> input]
        /\ out' = LET inner == map(f, input)
                      outer == map(g, inner.value)
                  IN  [outer EXCEPT !.trace = inner.trace \o @]

CallFlap ==
    /\ Idle
    /\ \E func \in {Right(f) : f \in FnPayload} \cup {Left(v) : v \in Payload},
          value \in Payload :
        /\ op' = "flap"
        /\ args' = [func |-> func, value |-> value]
        /\ out' = flap(func, value)

CallBimap ==
    /\ Idle
    /\ \E leftSelector \in Handlers, rightSelector \in Handlers, input \in Eithers :
        /\ op' = "bimap"
        /\ args' = [leftSelector |-> leftSelector, rightSelector |-> rightSelector,
                    input |-> input]
        /\ out' = bimap(leftSelector, rightSelector, input)

CallChain ==
    /\ Idle
    /\ \E selector \in ChainSelectors, input \in Eithers :
        /\ op' = "chain"
        /\ args' = [selector |-> selector, input |-> input]
        /\ out' = chain(selector, input)

\* chain(f)(of(x))
CallChainOf ==
    /\ Idle
    /\ \E selector \in ChainSelectors, x \in Payload :
        /\ op' = "chain.of"
        /\ args' = [selector |-> selector, x |-> x]
        /\ out' = chain(selector, of(x))

CallAlt ==
    /\ Idle
    /\ \E a \in Eithers, b \in Eithers :
        /\ op' = "alt"
        /\ args' = [a |-> a, b |-> b]
        /\ out' = alt(a, b)

CallAltLazy ==
    /\ Idle
    /\ \E a \in Eithers, b \in Thunks :
        /\ op' = "altLazy"
        /\ args' = [a |-> a, b |-> b]
        /\ out' = altLazy(a, b)

CallExtend ==
    /\ Idle
    /\ \E selector \in ExtendSelectors, input \in Eithers :
        /\ op' = "extend"
        /\ args' = [selector |-> selector, input |-> input]
        /\ out' = extend(selector, input)

CallApply ==
    /\ Idle
    /\ \E func \in {Right(f) : f \in FnPayload} \cup {Left(v) : v \in Payload},
          value \in Eithers :
        /\ op' = "apply"
        /\ args' = [func |-> func, value |-> value]
        /\ out' = apply(func, value)

CallLift2 ==
    /\ Idle
    /\ \E func \in Funcs2, t1 \in Eithers, t2 \in Eithers :
        /\ op' = "lift2"
        /\ args' = [func |-> func, t1 |-> t1, t2 |-> t2]
        /\ out' = lift2(func, t1, t2)

CallLift3 ==
    /\ Idle
    /\ \E func \in Funcs3, t1 \in Eithers, t2 \in Eithers, t3 \in Eithers :
        /\ op' = "lift3"
        /\ args' = [func |-> func, t1 |-> t1, t2 |-> t2, t3 |-> t3]
        /\ out' = lift3(func, t1, t2, t3)

CallApplyFirst ==
    /\ Idle
    /\ \E first \in Eithers, second \in Eithers :
        /\ op' = "applyFirst"
        /\ args' = [first |-> first, second |-> second]
        /\ out' = applyFirst(first, second)

CallApplySecond ==
    /\ Idle
    /\ \E first \in Eithers, second \in Eithers :
        /\ op' = "applySecond"
        /\ args' = [first |-> first, second |-> second]
        /\ out' = applySecond(first, second)

CallLiftProps ==
    /\ Idle
    /\ \E input \in Records :
        /\ op' = "liftProps"
        /\ args' = [input |-> input]
        /\ out' = liftProps(input)

CallLiftPropsCollect ==
    /\ Idle
    /\ \E input \in Records :
        /\ op' = "liftPropsCollect"
        /\ args' = [input |-> input]
        /\ out' = liftPropsCollect(input)

Next ==
    \/ CallRight
    \/ CallLeft
    \/ CallIsRight
    \/ CallIsLeft
    \/ CallCaseOf
    \/ CallToString
    \/ CallMapLeft
    \/ CallToArray
    \/ CallSingleFromArray
    \/ CallFirstFromArray
    \/ CallDefaultTo
    \/ CallGetRightOrFail
    \/ CallGetLeftOrFail
    \/ CallMap
    \/ CallMapMap
    \/ CallFlap
    \/ CallBimap
    \/ CallChain
    \/ CallChainOf
    \/ CallAlt
    \/ CallAltLazy
    \/ CallExtend
    \/ CallApply
    \/ CallLift2
    \/ CallLift3
    \/ CallApplyFirst
    \/ CallApplySecond
    \/ CallLiftProps
    \/ CallLiftPropsCollect
    \/ Discard

Spec == Init /\ [][Next]_vars

(***************************************************************************)
(* Helpers of the properties.                                              *)
(***************************************************************************)
Invocation(name, x) == [fn |-> name, args |-> <<x>>]

\* how many times the caller-supplied function called name was invoked
Invocations(name) == Cardinality({i \in 1..Len(out.trace) : out.trace[i].fn = name})

\* r occurs in the string s
Embeds(s, r) == \E i \in 1..(Len(s) - Len(r) + 1) : SubSeq(s, i, i + Len(r) - 1) = r

KeySet(o) == {o.props[i][1] : i \in 1..Len(o.props)}

\* the positions, in the order the fields were written, of the Left fields
LeftFields(o) == {i \in 1..Len(o.props) : o.props[i][2].type = "left"}

FirstLeftField(o) == CHOOSE i \in LeftFields(o) : \A j \in LeftFields(o) : i <= j

\* the payloads of the Left fields, in the order the fields were written
RECURSIVE LeftPayloads(_)
LeftPayloads(props) ==
    IF props = <<>> THEN <<>>
    ELSE IF Head(props)[2].type = "left"
        THEN <<Head(props)[2].value>> \o LeftPayloads(Tail(props))
        ELSE LeftPayloads(Tail(props))

\* result is the input record with every field unwrapped
Unwrapped(result, input) ==
    /\ "props" \in DOMAIN result
    /\ KeySet(result) = KeySet(input)
    /\ \A key \in KeySet(input) : GetProp(result, key) = GetProp(input, key).value

(***************************************************************************)
(* C1.  An Either built by Right(v) is a Right and not a Left, one built   *)
(* by Left(v) is a Left and not a Right, and both carry v.  caseOf invokes *)
(* the handler of the input's variant exactly once, on the payload, never  *)
(* the other handler, and returns what that handler returned.              *)
(***************************************************************************)
C1_Dispatch ==
    /\ op = "Right" =>
        isRight(out.value) /\ ~isLeft(out.value) /\ out.value.value = args.value
    /\ op = "Left" =>
        isLeft(out.value) /\ ~isRight(out.value) /\ out.value.value = args.value
    /\ op = "isRight" => out.value = (args.ctor = "Right")
    /\ op = "isLeft" => out.value = (args.ctor = "Left")
    /\ op = "caseOf" =>
        /\ out.kind = "return"
        /\ args.ctor = "Right" =>
            /\ out.trace = <<Invocation("right", args.value)>>
            /\ out.value = args.right[args.value]
        /\ args.ctor = "Left" =>
            /\ out.trace = <<Invocation("left", args.value)>>
            /\ out.value = args.left[args.value]

C1_Witness ==
    /\ op = "caseOf"
    /\ args.ctor = "Left"
    /\ args.right[args.value] # args.left[args.value]
    /\ out.value = args.left[args.value]
    /\ Invocations("left") = 1
    /\ Invocations("right") = 0

(***************************************************************************)
(* C2.  liftProps returns the Left of the first Left field in the order    *)
(* the fields were written, whatever the labels are; when every field is   *)
(* Right it returns Right of a record with the same labels, each field     *)
(* unwrapped.                                                              *)
(***************************************************************************)
C2_DeclaredOrder ==
    op = "liftProps" =>
        /\ out.kind = "return"
        /\ LeftFields(args.input) # {} =>
            out.value = args.input.props[FirstLeftField(args.input)][2]
        /\ LeftFields(args.input) = {} =>
            /\ out.value.type = "right"
            /\ Unwrapped(out.value.value, args.input)

(***************************************************************************)
(* C3.  liftPropsCollect returns Left of the payloads of all Left fields,  *)
(* in the order the fields were written, when a field is Left, and Right   *)
(* of the unwrapped record exactly when no field is Left.  For             *)
(* {a: Left("x"), b: Left("y"), c: Right(1)} it returns Left(["x","y"]).   *)
(***************************************************************************)
C3_CollectOrder ==
    op = "liftPropsCollect" =>
        /\ out.kind = "return"
        /\ LeftFields(args.input) # {} =>
            out.value = Left(Arr(LeftPayloads(args.input.props)))
        /\ LeftFields(args.input) = {} =>
            /\ out.value.type = "right"
            /\ Unwrapped(out.value.value, args.input)
        /\ args.input = Obj(<< <<"a", Left(Str("x"))>>, <<"b", Left(Str("y"))>>,
                               <<"c", Right(Num(1))>> >>) =>
            out.value = Left(Arr(<<Str("x"), Str("y")>>))

(***************************************************************************)
(* C4.  lift2 and lift3 return the first operand, in argument order, that  *)
(* is a Left, as it is and without invoking func; when every operand is a  *)
(* Right they invoke func once, applied to the payloads in order, and      *)
(* return Right of the result.                                             *)
(***************************************************************************)
C4_LiftShortCircuit ==
    /\ op = "lift2" =>
        /\ out.kind = "return"
        /\ args.t1.type = "left" => out.value = args.t1 /\ out.trace = <<>>
        /\ args.t1.type = "right" /\ args.t2.type = "left" =>
            out.value = args.t2 /\ out.trace = <<>>
        /\ args.t1.type = "right" /\ args.t2.type = "right" =>
            /\ out.value = Right(args.func[args.t1.value][args.t2.value])
            /\ Invocations("func") = 1
            /\ out.trace[1] = Invocation("func", args.t1.value)
            /\ out.trace[2] = Invocation("func(t1)", args.t2.value)
            /\ Len(out.trace) = 2
    /\ op = "lift3" =>
        /\ out.kind = "return"
        /\ args.t1.type = "left" => out.value = args.t1 /\ out.trace = <<>>
        /\ args.t1.type = "right" /\ args.t2.type = "left" =>
            out.value = args.t2 /\ out.trace = <<>>
        /\ args.t1.type = "right" /\ args.t2.type = "right" /\ args.t3.type = "left" =>
            out.value = args.t3 /\ out.trace = <<>>
        /\ args.t1.type = "right" /\ args.t2.type = "right" /\ args.t3.type = "right" =>
            /\ out.value = Right(args.func[args.t1.value][args.t2.value][args.t3.value])
            /\ Invocations("func") = 1
            /\ out.trace[1] = Invocation("func", args.t1.value)
            /\ out.trace[2] = Invocation("func(t1)", args.t2.value)
            /\ out.trace[3] = Invocation("func(t1)(t2)", args.t3.value)
            /\ Len(out.trace) = 3

\* lift3 given a Right, then two different Lefts: the second operand wins
C4_Witness ==
    /\ op = "lift3"
    /\ args.t1.type = "right"
    /\ args.t2.type = "left"
    /\ args.t3.type = "left"
    /\ args.t2 # args.t3
    /\ out.value = args.t2
    /\ Invocations("func") = 0

(***************************************************************************)
(* C5.  alt(a)(b) is a when a is a Right and b otherwise.  altLazy(a)(b)   *)
(* is a when a is a Right, and then b is not invoked; otherwise b is       *)
(* invoked once and its result returned.                                   *)
(***************************************************************************)
C5_FirstSuccess ==
    /\ op = "alt" =>
        /\ out.kind = "return"
        /\ out.trace = <<>>
        /\ args.a.type = "right" => out.value = args.a
        /\ args.a.type = "left" => out.value = args.b
    /\ op = "altLazy" =>
        /\ out.kind = "return"
        /\ args.a.type = "right" => out.value = args.a /\ Invocations("b") = 0
        /\ args.a.type = "left" =>
            /\ out.value = args.b[<<>>]
            /\ out.trace = <<[fn |-> "b", args |-> <<>>]>>

C5_Witness ==
    /\ op = "altLazy"
    /\ args.a.type = "right"
    /\ args.b[<<>>] # args.a
    /\ out.value = args.a
    /\ out.trace = <<>>

(***************************************************************************)
(* C6.  chain(f)(of(x)) is f(x); chain(of)(e) is e for a Left and for a    *)
(* Right e; chain(f) of a Left is a Left with the same payload and f is    *)
(* not invoked; chain(f) of a Right invokes f once on the payload and      *)
(* returns what f returned, not wrapped again.                             *)
(***************************************************************************)
C6_ChainLaws ==
    /\ op = "chain.of" =>
        /\ out.kind = "return"
        /\ out.value = args.selector[args.x]
    /\ op = "chain" =>
        /\ out.kind = "return"
        /\ args.selector = OfSelector => out.value = args.input
        /\ args.input.type = "left" =>
            out.value = Left(args.input.value) /\ out.trace = <<>>
        /\ args.input.type = "right" =>
            /\ out.value = args.selector[args.input.value]
            /\ out.trace = <<Invocation("selector", args.input.value)>>

\* a Right chained into a computation that fails
C6_Witness ==
    /\ op = "chain"
    /\ args.input.type = "right"
    /\ args.selector[args.input.value].type = "left"
    /\ out.value.type = "left"
    /\ Invocations("selector") = 1

C8_ApplyFirstSecond ==
    op \in {"applyFirst", "applySecond"} =>
        /\ out.kind = "return"
        /\ args.first.type = "left" => out.value = args.first
        /\ args.first.type = "right" /\ args.second.type = "left" => out.value = args.second
        /\ args.first.type = "right" /\ args.second.type = "right" =>
            /\ out.value.type = "right"
            /\ op = "applyFirst" => out.value.value = args.first.value
            /\ op = "applySecond" => out.value.value = args.second.value

C8_Witness ==
    /\ op = "applySecond"
    /\ args.first.type = "right"
    /\ args.second.type = "right"
    /\ args.first.value # args.second.value
    /\ out.value = Right(args.second.value)

(***************************************************************************)
(* C9.  map(identity)(e) is e; map(g)(map(f)(e)) is map(x => g(f(x)))(e)   *)
(* for a Right e; map(f)(Left(x)) is Left(x) and f is not invoked.         *)
(***************************************************************************)
C9_FunctorLaws ==
    /\ op = "map" =>
        /\ out.kind = "return"
        /\ args.selector = Identity => out.value = args.input
        /\ args.input.type = "left" =>
            out.value = Left(args.input.value) /\ out.trace = <<>>
        /\ args.input.type = "right" =>
            /\ out.value = Right(args.selector[args.input.value])
            /\ out.trace = <<Invocation("selector", args.input.value)>>
    /\ op = "map.map" /\ args.input.type = "right" =>
        /\ out.kind = "return"
        /\ out.value = Right(args.g[args.f[args.input.value]])
        /\ out.value = map([x \in Payload |-> args.g[args.f[x]]], args.input).value

\* two maps in a row over a Right, neither function the identity
C9_Witness ==
    /\ op = "map.map"
    /\ args.input.type = "right"
    /\ args.f = Swap
    /\ args.g = Wrap
    /\ out.value = Right(Arr(<<Swap[args.input.value]>>))
    /\ Invocations("selector") = 2

(***************************************************************************)
(* C10.  singleFromArray is Right of the only element for a sequence of    *)
(* length 1, Left(Empty) for length 0 and Left(MoreThanOne) for a longer   *)
(* one; firstFromArray is Right of the first element of a non-empty        *)
(* sequence and Left(Empty) of the empty one.                              *)
(***************************************************************************)
C10_Cardinality ==
    /\ op = "singleFromArray" =>
        /\ out.kind = "return"
        /\ Len(args.input.arr) = 0 => out.value = Left(Num(TakeSingleError_Empty))
        /\ Len(args.input.arr) = 1 => out.value = Right(args.input.arr[1])
        /\ Len(args.input.arr) > 1 => out.value = Left(Num(TakeSingleError_MoreThanOne))
    /\ op = "firstFromArray" =>
        /\ out.kind = "return"
        /\ Len(args.input.arr) = 0 => out.value = Left(Num(TakeFirstError_Empty))
        /\ Len(args.input.arr) > 0 => out.value = Right(args.input.arr[1])

C10_Witness ==
    /\ op = "singleFromArray"
    /\ Len(args.input.arr) = 2
    /\ args.input.arr[1] # args.input.arr[2]
    /\ out.value = Left(Num(1))

====
